---- MODULE Spec2Model ----
(***************************************************************************)
(* plyband: geometric core (types.rs, swath.rs, validation.rs) and the     *)
(* pipeline of main.rs.                                                    *)
(*                                                                         *)
(* An f64 is a pair <<n, d>>:                                              *)
(*   d > 0, gcd(|n|, d) = 1, n # 0   the rational n/d                      *)
(*   <<0, 1>>, <<0, -1>>             +0.0 and -0.0                         *)
(*   <<1, 0>>, <<-1, 0>>             +inf and -inf                         *)
(*   <<0, 0>>                        NaN                                   *)
(* Arithmetic follows IEEE-754 for signs of zero, infinities and NaN; the  *)
(* rounding of a result to 53 bits is not modelled (values are exact).     *)
(***************************************************************************)
EXTENDS Integers, Sequences, FiniteSets, TLC

VARIABLES
    pc,      \* position of the run
    bands,   \* the input rasters: sequence of [nx, ny, gt, proj]
    valid,   \* Result<(), String> of the validation last run
    swath,   \* Result<Swath, Error> of intersection
    ext,     \* intersection's locals rightmost_left .. lower_top
    gt,      \* a GeoTransform <<a, b, c, d, e, f>>
    pos,     \* a pixel position (isize, isize)
    pt,      \* a world Point
    inv,     \* (f64, f64) returned by invert
    size     \* (isize, isize) returned by imsize

vars == <<pc, bands, valid, swath, ext, gt, pos, pt, inv, size>>

-----------------------------------------------------------------------------
(* f64 *)

Abs(n) == IF n < 0 THEN -n ELSE n

RECURSIVE GCD(_, _)
GCD(m, n) == IF n = 0 THEN m ELSE GCD(n, m % n)

NaN == <<0, 0>>
Inf(neg) == IF neg THEN <<-1, 0>> ELSE <<1, 0>>
Zero(neg) == IF neg THEN <<0, -1>> ELSE <<0, 1>>

IsNan(x) == x[1] = 0 /\ x[2] = 0
IsInf(x) == x[1] # 0 /\ x[2] = 0
IsZero(x) == x[1] = 0 /\ x[2] # 0
IsFinite(x) == x[2] # 0
SignBit(x) == x[1] < 0 \/ (x[1] = 0 /\ x[2] < 0)
Den(x) == Abs(x[2])

\* the f64 of the non-zero rational n/d, d > 0
Norm(n, d) == LET g == GCD(Abs(n), d) IN <<n \div g, d \div g>>

\* `n as f64`
F(n) == <<n, 1>>

FNeg(x) == IF x[1] = 0 THEN <<0, -x[2]>> ELSE <<-x[1], x[2]>>

FAdd(x, y) ==
    IF IsNan(x) \/ IsNan(y) THEN NaN
    ELSE IF IsInf(x) THEN (IF IsInf(y) /\ x # y THEN NaN ELSE x)
    ELSE IF IsInf(y) THEN y
    ELSE LET n == x[1] * Den(y) + y[1] * Den(x) IN
         IF n = 0
         THEN Zero(IsZero(x) /\ IsZero(y) /\ SignBit(x) /\ SignBit(y))
         ELSE Norm(n, Den(x) * Den(y))

FSub(x, y) == FAdd(x, FNeg(y))

FMul(x, y) ==
    IF IsNan(x) \/ IsNan(y) THEN NaN
    ELSE IF (IsInf(x) /\ IsZero(y)) \/ (IsZero(x) /\ IsInf(y)) THEN NaN
    ELSE LET neg == SignBit(x) # SignBit(y) IN
         IF IsInf(x) \/ IsInf(y) THEN Inf(neg)
         ELSE IF IsZero(x) \/ IsZero(y) THEN Zero(neg)
         ELSE Norm(x[1] * y[1], x[2] * y[2])

FDiv(x, y) ==
    IF IsNan(x) \/ IsNan(y) THEN NaN
    ELSE IF (IsInf(x) /\ IsInf(y)) \/ (IsZero(x) /\ IsZero(y)) THEN NaN
    ELSE LET neg == SignBit(x) # SignBit(y) IN
         IF IsInf(x) \/ IsZero(y) THEN Inf(neg)
         ELSE IF IsInf(y) \/ IsZero(x) THEN Zero(neg)
         ELSE Norm((IF neg THEN -1 ELSE 1) * Abs(x[1]) * y[2], x[2] * Abs(y[1]))

FLt(x, y) ==
    /\ ~IsNan(x)
    /\ ~IsNan(y)
    /\ IF IsInf(x) \/ IsInf(y)
       THEN x # y /\ (x = Inf(TRUE) \/ y = Inf(FALSE))
       ELSE x[1] * Den(y) < y[1] * Den(x)

FGt(x, y) == FLt(y, x)

FEq(x, y) ==
    /\ ~IsNan(x)
    /\ ~IsNan(y)
    /\ IF IsInf(x) \/ IsInf(y) THEN x = y ELSE x[1] * Den(y) = y[1] * Den(x)

\* f64::ceil
FCeil(x) ==
    IF ~IsFinite(x) \/ IsZero(x) THEN x
    ELSE LET c == -((-x[1]) \div x[2]) IN
         IF c = 0 THEN Zero(x[1] < 0) ELSE <<c, 1>>

\* `x % 1.0`
FRem1(x) ==
    IF ~IsFinite(x) THEN NaN
    ELSE IF IsZero(x) THEN x
    ELSE LET r == Abs(x[1]) % x[2] IN
         IF r = 0 THEN Zero(SignBit(x))
         ELSE Norm((IF SignBit(x) THEN -1 ELSE 1) * r, x[2])

\* `x as isize`, x finite (the cast of NaN or an infinity is undefined in
\* older compilers and saturating in newer ones; no specification here casts
\* one)
AsIsize(x) ==
    IF IsZero(x) THEN 0
    ELSE (IF SignBit(x) THEN -1 ELSE 1) * (Abs(x[1]) \div x[2])

-----------------------------------------------------------------------------
(* types.rs: RealF64 and Transform2 (main.rs carries identical copies) *)

\* derived PartialOrd of RealF64: "None" when either side is NaN
partial_cmp(x, y) ==
    IF FLt(x, y) THEN "Less"
    ELSE IF FGt(x, y) THEN "Greater"
    ELSE IF FEq(x, y) THEN "Equal"
    ELSE "None"

\* impl Ord for RealF64
cmp(x, y) ==
    IF IsNan(x) THEN "Equal"
    ELSE IF partial_cmp(x, y) = "None" THEN "Equal" ELSE partial_cmp(x, y)

\* the forward map of apply on f64 pixel coordinates <<nx, ny>>
forward(g, p) ==
    <<FAdd(FAdd(g[1], FMul(p[1], g[2])), FMul(p[2], g[3])),
      FAdd(FAdd(g[4], FMul(p[1], g[5])), FMul(p[2], g[6]))>>

\* Transform2::apply, pos a pair of isize
apply(g, p) == forward(g, <<F(p[1]), F(p[2])>>)

\* invert with the sign of ny * f flipped in the b = 0 branch
invert_sign_slip(g, p) ==
    LET a == g[1]
        b == g[2]
        c == g[3]
        d == g[4]
        e == g[5]
        f == g[6]
        x == p[1]
        y == p[2]
    IN  IF ~FEq(b, F(0))
        THEN LET ny == FDiv(FAdd(FSub(FSub(FMul(b, y), FMul(b, d)), FMul(e, x)),
                                 FMul(e, a)),
                            FSub(FMul(b, f), FMul(e, c)))
                 nx == FDiv(FSub(FSub(x, a), FMul(ny, c)), b)
             IN  <<nx, ny>>
        ELSE LET ny == FDiv(FAdd(FSub(FSub(FMul(e, x), FMul(e, a)), FMul(b, y)),
                                 FMul(b, d)),
                            FSub(FMul(e, c), FMul(b, f)))
                 nx == FDiv(FAdd(FSub(y, d), FMul(ny, f)), e)
             IN  <<nx, ny>>

\* Transform2::invert
invert(g, p) ==
    LET a == g[1]
        b == g[2]
        c == g[3]
        d == g[4]
        e == g[5]
        f == g[6]
        x == p[1]
        y == p[2]
    IN  IF ~FEq(b, F(0))
        THEN LET ny == FDiv(FAdd(FSub(FSub(FMul(b, y), FMul(b, d)), FMul(e, x)),
                                 FMul(e, a)),
                            FSub(FMul(b, f), FMul(e, c)))
                 nx == FDiv(FSub(FSub(x, a), FMul(ny, c)), b)
             IN  <<nx, ny>>
        ELSE LET ny == FDiv(FAdd(FSub(FSub(FMul(e, x), FMul(e, a)), FMul(b, y)),
                                 FMul(b, d)),
                            FSub(FMul(e, c), FMul(b, f)))
                 nx == FDiv(FSub(FSub(y, d), FMul(ny, f)), e)
             IN  <<nx, ny>>

\* f64::ceil followed by `as isize`
ceil_as_isize(x) == AsIsize(FCeil(x))

\* Transform2::imsize
imsize(g, p) ==
    LET n == invert(g, p) IN <<ceil_as_isize(n[1]), ceil_as_isize(n[2])>>

\* the determinant b*f - e*c of the linear part
det(g) == FSub(FMul(g[2], g[6]), FMul(g[5], g[3]))

Singular(g) == FEq(det(g), F(0))

-----------------------------------------------------------------------------
(* swath.rs: Swath and intersection (main.rs carries its own copies) *)

\* Iterator::max / max_by_key over the keys: the last of the greatest
\* (std selects with Ord::cmp; for keys without NaN every std version agrees)
RECURSIVE max_fold(_, _, _)
max_fold(keys, i, best) ==
    IF i > Len(keys) THEN best
    ELSE max_fold(keys, i + 1,
                  IF cmp(keys[best], keys[i]) = "Greater" THEN best ELSE i)

\* Iterator::min / min_by_key over the keys: the first of the least
RECURSIVE min_fold(_, _, _)
min_fold(keys, i, best) ==
    IF i > Len(keys) THEN best
    ELSE min_fold(keys, i + 1,
                  IF cmp(keys[best], keys[i]) = "Greater" THEN i ELSE best)

\* max() that yields the first key
iter_max_first(keys) == keys[1]

\* min() that selects with the comparison of max()
iter_min_as_max(keys) == keys[max_fold(keys, 2, 1)]

iter_max(keys) == keys[max_fold(keys, 2, 1)]
iter_min(keys) == keys[min_fold(keys, 2, 1)]

\* Swath::from_band
from_band(band) ==
    [nx |-> band.nx, ny |-> band.ny, gt |-> band.gt, proj |-> band.proj]

\* Swath::corners
corners(s) ==
    <<apply(s.gt, <<0, 0>>), apply(s.gt, <<s.nx, 0>>),
      apply(s.gt, <<s.nx, s.ny>>), apply(s.gt, <<0, s.ny>>)>>

Xs(pts) == <<pts[1][1], pts[2][1], pts[3][1], pts[4][1]>>
Ys(pts) == <<pts[1][2], pts[2][2], pts[3][2], pts[4][2]>>

left_extreme(s) == iter_min(Xs(corners(s)))
right_extreme(s) == iter_max(Xs(corners(s)))
bottom_extreme(s) == iter_min(Ys(corners(s)))
top_extreme(s) == iter_max(Ys(corners(s)))

\* swaths.iter().map(|b| ..).collect() for the four extremes, in input order
RECURSIVE extremes(_)
extremes(bs) ==
    IF Len(bs) = 0
    THEN [left |-> <<>>, right |-> <<>>, bottom |-> <<>>, top |-> <<>>]
    ELSE LET rest == extremes(SubSeq(bs, 1, Len(bs) - 1))
             s == from_band(bs[Len(bs)])
         IN  [left |-> Append(rest.left, left_extreme(s)),
              right |-> Append(rest.right, right_extreme(s)),
              bottom |-> Append(rest.bottom, bottom_extreme(s)),
              top |-> Append(rest.top, top_extreme(s))]

\* the four bounds, every one of them taken with max()
bounds_all_max(bs) ==
    LET e == extremes(bs) IN
    [left |-> iter_max(e.left), right |-> iter_max(e.right),
     bottom |-> iter_max(e.bottom), top |-> iter_max(e.top)]

\* swath.rs: rightmost_left, leftmost_right, upper_bottom, lower_top
bounds(bs) ==
    LET e == extremes(bs) IN
    [left |-> iter_max(e.left), right |-> iter_min(e.right),
     bottom |-> iter_max(e.bottom), top |-> iter_min(e.top)]

\* main.rs: the same four locals, every one of them taken with max()
main_bounds(bs) ==
    LET e == extremes(bs) IN
    [left |-> iter_max(e.left), right |-> iter_max(e.right),
     bottom |-> iter_max(e.bottom), top |-> iter_max(e.top)]

\* build_swath without the test of bottom against top
build_swath_x_only(bs, b) ==
    IF FGt(b.left, b.right)
    THEN [ok |-> FALSE, msg |-> "No valid intersection between bands"]
    ELSE LET gt_fst == bs[1].gt
             g == <<b.left, gt_fst[2], gt_fst[3], b.top, gt_fst[5], gt_fst[6]>>
             n == imsize(g, <<b.right, b.bottom>>)
         IN  [ok |-> TRUE, msg |-> "", nx |-> n[1], ny |-> n[2], gt |-> g,
              proj |-> bs[1].proj]

\* the rest of intersection, from the comparison of the bounds on
build_swath(bs, b) ==
    IF FGt(b.left, b.right) \/ FGt(b.bottom, b.top)
    THEN [ok |-> FALSE, msg |-> "No valid intersection between bands"]
    ELSE LET gt_fst == bs[1].gt
             g == <<b.left, gt_fst[2], gt_fst[3], b.top, gt_fst[5], gt_fst[6]>>
             n == imsize(g, <<b.right, b.bottom>>)
         IN  [ok |-> TRUE, msg |-> "", nx |-> n[1], ny |-> n[2], gt |-> g,
              proj |-> bs[1].proj]

\* swath.rs intersection
intersection(bs) ==
    IF Len(bs) = 0 THEN [ok |-> FALSE, msg |-> "No bands provided"]
    ELSE build_swath(bs, bounds(bs))

\* main.rs intersection
main_intersection(bs) ==
    IF Len(bs) = 0 THEN [ok |-> FALSE, msg |-> "No bands provided"]
    ELSE build_swath(bs, main_bounds(bs))

-----------------------------------------------------------------------------
(* validation.rs (main.rs carries identical copies) *)

Ok == [ok |-> TRUE, msg |-> ""]
Err(m) == [ok |-> FALSE, msg |-> m]

\* the fold of all_same from element i on; left is the previous element
RECURSIVE all_same_fold(_, _, _, _)
all_same_fold(things, i, b, left) ==
    IF i > Len(things) THEN b
    ELSE all_same_fold(things, i + 1,
                       IF b THEN (i = 1 \/ left = things[i]) ELSE b,
                       things[i])

all_same(things) == all_same_fold(things, 1, TRUE, "")

projections(ds) == [i \in 1 .. Len(ds) |-> ds[i].proj]

have_same_projection(ds) ==
    IF all_same(projections(ds)) THEN Ok ELSE Err("Different projections")

\* gt_compatible without the offset check
gt_compatible_spacing_only(gt1, gt2) ==
    IF ~(FEq(gt1[2], gt2[2]) /\ FEq(gt1[3], gt2[3])
            /\ FEq(gt1[5], gt2[5]) /\ FEq(gt1[6], gt2[6]))
    THEN Err("non-equal spacing")
    ELSE Ok

gt_compatible(gt1, gt2) ==
    IF ~(FEq(gt1[2], gt2[2]) /\ FEq(gt1[3], gt2[3])
            /\ FEq(gt1[5], gt2[5]) /\ FEq(gt1[6], gt2[6]))
    THEN Err("non-equal spacing")
    ELSE LET n == invert(gt1, <<gt2[1], gt2[4]>>) IN
         IF FEq(FRem1(n[1]), F(0)) /\ FEq(FRem1(n[2]), F(0))
         THEN Ok
         ELSE Err("grids offset")

\* the fold of have_compatible_geotransforms from dataset i on
RECURSIVE gt_fold(_, _, _, _)
gt_fold(ds, i, acc, left) ==
    IF i > Len(ds) THEN acc
    ELSE IF acc.ok
         THEN gt_fold(ds, i + 1, gt_compatible(left, ds[i].gt), ds[i].gt)
         ELSE gt_fold(ds, i + 1, acc, left)

have_compatible_geotransforms(ds) ==
    IF Len(ds) = 0 THEN Err("empty dataset list")
    ELSE gt_fold(ds, 1, Ok, ds[1].gt)

-----------------------------------------------------------------------------
(* values shared by the specifications *)

GT(o, l) == <<F(o[1]), F(l[1]), F(l[2]), F(o[2]), F(l[3]), F(l[4])>>

NoBands == <<>>
NoResult == Err("not run")
NoExt == [left |-> NaN, right |-> NaN, bottom |-> NaN, top |-> NaN]
NoGt == GT(<<0, 0>>, <<1, 0, 0, -1>>)
NoPos == <<0, 0>>
NoPt == <<NaN, NaN>>
NoSize == <<0, 0>>

-----------------------------------------------------------------------------
(* SpecTransform: apply, invert and imsize on one transform *)

MaxPixel == 1

\* linear parts <<b, c, e, f>>: north-up, coarser, south-up, west-pointing,
\* b = 0 (rotated), rotated with determinant 2 and 3, and three singular ones
Linear ==
    { <<1, 0, 0, -1>>, <<2, 0, 0, -2>>, <<1, 0, 0, 1>>, <<-1, 0, 0, -1>>,
      <<0, 1, -1, 1>>, <<1, 1, -1, 1>>, <<2, 1, -1, 1>>,
      <<1, 1, 1, 1>>, <<0, 1, 0, 1>>, <<0, 0, 1, 1>> }

Origins == { <<0, 0>>, <<1, 2>> }

Transforms == { GT(o, l) : o \in Origins, l \in Linear }

Pixels == (-MaxPixel .. MaxPixel) \X (-MaxPixel .. MaxPixel)

Coords == { F(-5), F(-1), F(0), <<1, 2>>, F(5) }

WorldPts == Coords \X Coords

InitTransform ==
    /\ pc = "transform"
    /\ gt \in Transforms
    /\ pos \in Pixels
    /\ pt \in WorldPts
    /\ inv = NoPt
    /\ size = NoSize
    /\ bands = NoBands
    /\ valid = NoResult
    /\ swath = NoResult
    /\ ext = NoExt

\* gt.apply(pos)
Apply ==
    /\ pc = "transform"
    /\ pt' = apply(gt, pos)
    /\ pc' = "applied"
    /\ UNCHANGED <<bands, valid, swath, ext, gt, pos, inv, size>>

\* gt.invert(&pt), of a given point or of the point apply returned
Invert ==
    /\ pc \in {"transform", "applied"}
    /\ inv' = invert(gt, pt)
    /\ pc' = IF pc = "applied" THEN "reinverted" ELSE "inverted"
    /\ UNCHANGED <<bands, valid, swath, ext, gt, pos, pt, size>>

\* gt.imsize(&pt); the cast of a non-finite f64 to isize is left out
Imsize ==
    /\ pc = "transform"
    /\ IsFinite(invert(gt, pt)[1])
    /\ IsFinite(invert(gt, pt)[2])
    /\ size' = imsize(gt, pt)
    /\ pc' = "sized"
    /\ UNCHANGED <<bands, valid, swath, ext, gt, pos, pt, inv>>

NextTransform == Apply \/ Invert \/ Imsize

SpecTransform == InitTransform /\ [][NextTransform]_vars

-----------------------------------------------------------------------------
(* claims on SpecTransform *)

PtEq(p, q) == FEq(p[1], q[1]) /\ FEq(p[2], q[2])

\* C8: for a transform with non-zero determinant, the forward map applied to
\* invert(p) gives p back, and invert(apply(col, row)) gives (col, row) back,
\* in the b # 0 branch and in the b = 0 branch alike.
C8_RoundTrip ==
    /\ (pc = "inverted" /\ ~Singular(gt)) => PtEq(forward(gt, inv), pt)
    /\ (pc = "reinverted" /\ ~Singular(gt)) => PtEq(inv, <<F(pos[1]), F(pos[2])>>)

\* a point inverted through the b = 0 branch to a fractional pixel
C8_Witness ==
    /\ pc = "inverted"
    /\ ~Singular(gt)
    /\ FEq(gt[2], F(0))
    /\ ~FEq(gt[6], F(0))
    /\ FRem1(inv[1]) # Zero(FALSE)
    /\ IsFinite(inv[1])

\* C9: invert on a singular transform never returns a NaN or infinite pixel
\* coordinate (the claim asks for an error outcome instead).
C9_SingularIsError ==
    (pc \in {"inverted", "reinverted"} /\ Singular(gt))
        => (IsFinite(inv[1]) /\ IsFinite(inv[2]))

\* the signed ceiling the claim describes: away from zero for both signs
RoundAway(x) ==
    IF SignBit(x) THEN -AsIsize(FCeil(FNeg(x))) ELSE AsIsize(FCeil(x))

\* C10: imsize rounds each inverted pixel coordinate away from zero, for
\* negative coordinates as for positive ones (2.5 -> 3, -2.5 -> -3).
C10_RoundsAwayFromZero ==
    pc = "sized" =>
        size = <<RoundAway(invert(gt, pt)[1]), RoundAway(invert(gt, pt)[2])>>

-----------------------------------------------------------------------------
(* SpecSwath: swath.rs intersection on a list of bands *)

MaxBands == 3

Band(nx, ny, o, l, proj) == [nx |-> nx, ny |-> ny, gt |-> GT(o, l), proj |-> proj]

NorthUp == <<1, 0, 0, -1>>

\* north-up bands <<nx, ny, origin>> that overlap, touch along an edge or
\* lie apart in Y
NorthBands ==
    { Band(g[1], g[2], g[3], NorthUp, "utm10") :
        g \in { <<2, 2, <<0, 2>>>>, <<2, 2, <<1, 3>>>>, <<1, 2, <<2, 3>>>>,
                <<2, 1, <<0, 5>>>>, <<3, 1, <<0, 2>>>> } }

\* south-up, west-pointing, rotated (b = 0 and b # 0) and coarser bands (the
\* last apart from most others in X), and one in another projection; every
\* transform is non-singular and every coefficient finite, so that imsize
\* casts a finite value
OtherBands ==
    { Band(2, 2, <<0, 0>>, <<1, 0, 0, 1>>, "utm10"),
      Band(2, 2, <<2, 2>>, <<-1, 0, 0, -1>>, "utm10"),
      Band(2, 2, <<0, 2>>, <<0, 1, -1, 1>>, "utm10"),
      Band(1, 1, <<1, 2>>, <<0, 1, -1, 1>>, "utm10"),
      Band(2, 2, <<0, 2>>, <<1, 1, -1, 1>>, "utm10"),
      Band(1, 1, <<4, 4>>, <<2, 0, 0, -2>>, "utm10"),
      Band(2, 2, <<0, 2>>, NorthUp, "utm11") }

SwathBands == NorthBands \cup OtherBands

\* the worked scenario: three 100 x 100 grids, pixel size (1, -1)
Scenario ==
    <<Band(100, 100, <<0, 100>>, NorthUp, "utm10"),
      Band(100, 100, <<5, 100>>, NorthUp, "utm10"),
      Band(100, 100, <<0, 95>>, NorthUp, "utm10")>>

BandLists(S, n) == UNION { [1 .. k -> S] : k \in 0 .. n }

InitSwath ==
    /\ pc = "bands"
    /\ bands \in BandLists(SwathBands, MaxBands) \cup {Scenario}
    /\ valid = NoResult
    /\ swath = NoResult
    /\ ext = NoExt
    /\ gt = NoGt
    /\ pos = NoPos
    /\ pt = NoPt
    /\ inv = NoPt
    /\ size = NoSize

\* intersection(&bands) of swath.rs
Intersection ==
    /\ pc = "bands"
    /\ swath' = intersection(bands)
    /\ ext' = IF Len(bands) = 0 THEN NoExt ELSE bounds(bands)
    /\ pc' = "intersected"
    /\ UNCHANGED <<bands, valid, gt, pos, pt, inv, size>>

NextSwath == Intersection

SpecSwath == InitSwath /\ [][NextSwath]_vars

-----------------------------------------------------------------------------
(* claims on SpecSwath *)

FLe(x, y) == FLt(x, y) \/ FEq(x, y)

\* v is the greatest / the least member of the set of coordinates
IsMaxOf(v, xs) == (\E x \in xs : FEq(x, v)) /\ (\A x \in xs : FLe(x, v))
IsMinOf(v, xs) == (\E x \in xs : FEq(x, v)) /\ (\A x \in xs : FLe(v, x))

\* the four corners apply(0,0), apply(nx,0), apply(nx,ny), apply(0,ny)
CornerSet(b) ==
    { apply(b.gt, <<0, 0>>), apply(b.gt, <<b.nx, 0>>),
      apply(b.gt, <<b.nx, b.ny>>), apply(b.gt, <<0, b.ny>>) }

Least(xs) == CHOOSE v \in xs : \A w \in xs : FLe(v, w)
Greatest(xs) == CHOOSE v \in xs : \A w \in xs : FLe(w, v)

\* the least / greatest X and Y over the corners of a band
MinX(b) == Least({ p[1] : p \in CornerSet(b) })
MaxX(b) == Greatest({ p[1] : p \in CornerSet(b) })
MinY(b) == Least({ p[2] : p \in CornerSet(b) })
MaxY(b) == Greatest({ p[2] : p \in CornerSet(b) })

Idx == 1 .. Len(bands)

\* C1: for a non-empty list of grids, intersection selects left = the
\* greatest of the inputs' left extremes, right = the least of their right
\* extremes, bottom = the greatest of their bottom extremes and top = the
\* least of their top extremes, an input's extremes being the least and
\* greatest X and Y of its four corners.
C1_BoundsAreMaxMinOfExtremes ==
    (pc = "intersected" /\ Len(bands) > 0) =>
        /\ IsMaxOf(ext.left, { MinX(bands[i]) : i \in Idx })
        /\ IsMinOf(ext.right, { MaxX(bands[i]) : i \in Idx })
        /\ IsMaxOf(ext.bottom, { MinY(bands[i]) : i \in Idx })
        /\ IsMinOf(ext.top, { MaxY(bands[i]) : i \in Idx })

\* three bands whose extremes all differ in X: the right bound is neither
\* the first nor the greatest right extreme
C1_Witness ==
    /\ pc = "intersected"
    /\ Len(bands) = 3
    /\ FLt(ext.right, MaxX(bands[1]))
    /\ FLt(MinX(bands[1]), ext.left)
    /\ FLt(ext.left, ext.right)
    /\ FLt(ext.bottom, ext.top)

\* C3: the worked scenario (three 100 x 100 grids, pixel size (1, -1),
\* origins (0,100), (5,100), (0,95)) gives left = 5, right = 100, bottom = 0,
\* top = 95 and a swath with origin (5, 95), width 95 and height 95.
C3_WorkedScenario ==
    (pc = "intersected" /\ bands = Scenario) =>
        /\ ext = [left |-> F(5), right |-> F(100), bottom |-> F(0), top |-> F(95)]
        /\ swath.ok
        /\ swath.gt = GT(<<5, 95>>, NorthUp)
        /\ swath.nx = 95
        /\ swath.ny = 95

C3_Witness == pc = "intersected" /\ bands = Scenario /\ swath.ok

\* some band lies wholly to the left of, or wholly below, another one
Disjoint ==
    \/ \E r \in { MaxX(bands[i]) : i \in Idx } :
           \E l \in { MinX(bands[i]) : i \in Idx } : FLt(r, l)
    \/ \E t \in { MaxY(bands[i]) : i \in Idx } :
           \E b \in { MinY(bands[i]) : i \in Idx } : FLt(t, b)

\* C4: when the grids have no world-space overlap, intersection returns the
\* error "No valid intersection between bands" and no swath.
C4_DisjointIsNoIntersection ==
    (pc = "intersected" /\ Disjoint) =>
        (~swath.ok /\ swath.msg = "No valid intersection between bands")

\* three bands that overlap in X and of which two lie apart in Y only
C4_Witness ==
    /\ pc = "intersected"
    /\ Len(bands) = 3
    /\ \E i, j \in Idx : FLt(MaxY(bands[i]), MinY(bands[j]))
    /\ \A i, j \in Idx : ~FLt(MaxX(bands[i]), MinX(bands[j]))
    /\ ~swath.ok

GtEq(g, h) == \A k \in 1 .. 6 : FEq(g[k], h[k])

\* C5: intersection of a one-element list, the grid having a non-singular
\* transform and non-zero dimensions, returns the grid's own width, height
\* and six transform coefficients.
C5_SingleGridIdempotent ==
    (/\ pc = "intersected"
     /\ Len(bands) = 1
     /\ ~Singular(bands[1].gt)
     /\ bands[1].nx # 0
     /\ bands[1].ny # 0) =>
        /\ swath.ok
        /\ swath.nx = bands[1].nx
        /\ swath.ny = bands[1].ny
        /\ GtEq(swath.gt, bands[1].gt)

Permute(bs, p) == [i \in 1 .. Len(bs) |-> bs[p[i]]]

ExtEq(e, f) ==
    /\ FEq(e.left, f.left)
    /\ FEq(e.right, f.right)
    /\ FEq(e.bottom, f.bottom)
    /\ FEq(e.top, f.top)

\* the two outcomes agree in everything but the projection
SameOutcome(r, q) ==
    /\ r.ok = q.ok
    /\ r.msg = q.msg
    /\ r.ok => (r.nx = q.nx /\ r.ny = q.ny /\ GtEq(r.gt, q.gt))

Compatible(bs) ==
    have_same_projection(bs).ok /\ have_compatible_geotransforms(bs).ok

\* C6: for a list of grids that passes both compatibility checks, every
\* permutation of the list has the same outcome (a swath or the error) and,
\* for a swath, the same width, height, origin and four bounds.
C6_OrderIndependent ==
    (pc = "intersected" /\ Compatible(bands)) =>
        \A q \in { Permute(bands, p) : p \in Permutations(Idx) } :
            \A r \in {intersection(q)} : \A e \in {bounds(q)} :
                SameOutcome(r, swath) /\ ExtEq(e, ext)

\* three different compatible bands, the first of which sets neither bound
C6_Witness ==
    /\ pc = "intersected"
    /\ Len(bands) = 3
    /\ Compatible(bands)
    /\ swath.ok
    /\ swath.nx > 0
    /\ Cardinality({ bands[i] : i \in Idx }) = 3
    /\ FLt(MinX(bands[1]), ext.left)
    /\ FLt(ext.top, MaxY(bands[1]))

\* some band's edge lies on another's: the common rectangle is empty
TouchOnly ==
    \/ FEq(ext.left, ext.right)
    \/ FEq(ext.bottom, ext.top)

\* C11: every swath intersection returns has non-zero width and non-zero
\* height; inputs that only touch along an edge give the error, not a swath
\* with nx = 0 or ny = 0.
C11_SwathIsNonEmpty ==
    (pc = "intersected" /\ Len(bands) > 0) =>
        /\ swath.ok => (swath.nx # 0 /\ swath.ny # 0)
        /\ TouchOnly => ~swath.ok

-----------------------------------------------------------------------------
(* Spec: the run of main on the red, green and blue datasets *)

\* datasets = &[&red_ds, &green_ds, &blue_ds]
NumChannels == 3

\* a band half a pixel off the lattice of NorthBands, and one whose
\* transform is singular
HalfOffBand ==
    [nx |-> 2, ny |-> 2, proj |-> "utm10",
     gt |-> <<<<1, 2>>, F(1), F(0), F(2), F(0), F(-1)>>]

SingularBand == Band(2, 2, <<0, 2>>, <<1, 1, 1, 1>>, "utm10")

MainBands ==
    NorthBands \cup
    { Band(2, 2, <<0, 2>>, NorthUp, "utm11"),
      Band(1, 1, <<0, 4>>, <<2, 0, 0, -2>>, "utm10"),
      HalfOffBand, SingularBand }

Init ==
    /\ pc = "start"
    /\ bands \in [1 .. NumChannels -> MainBands]
    /\ valid = NoResult
    /\ swath = NoResult
    /\ ext = NoExt
    /\ gt = NoGt
    /\ pos = NoPos
    /\ pt = NoPt
    /\ inv = NoPt
    /\ size = NoSize

\* the projection check with its result passed over: the run goes on
HaveSameProjection_result_ignored ==
    /\ pc = "start"
    /\ valid' = have_same_projection(bands)
    /\ pc' = "same_projection"
    /\ UNCHANGED <<bands, swath, ext, gt, pos, pt, inv, size>>

\* have_same_projection(datasets); the unwrap() panics on Err
HaveSameProjection ==
    /\ pc = "start"
    /\ valid' = have_same_projection(bands)
    /\ pc' = IF valid'.ok THEN "same_projection" ELSE "panicked"
    /\ UNCHANGED <<bands, swath, ext, gt, pos, pt, inv, size>>

\* .and_then(|_| have_compatible_geotransforms(datasets)).unwrap()
HaveCompatibleGeotransforms ==
    /\ pc = "same_projection"
    /\ valid' = have_compatible_geotransforms(bands)
    /\ pc' = IF valid'.ok THEN "validated" ELSE "panicked"
    /\ UNCHANGED <<bands, swath, ext, gt, pos, pt, inv, size>>

\* intersection(&[&red_band, &green_band, &blue_band]).unwrap()
MainIntersection ==
    /\ pc = "validated"
    /\ swath' = main_intersection(bands)
    /\ ext' = main_bounds(bands)
    /\ pc' = IF swath'.ok THEN "intersected" ELSE "panicked"
    /\ UNCHANGED <<bands, valid, gt, pos, pt, inv, size>>

\* ply_bands: the output raster is created swath.nx.abs() by swath.ny.abs()
\* and tagged with the swath's transform
PlyBands ==
    /\ pc = "intersected"
    /\ size' = <<Abs(swath.nx), Abs(swath.ny)>>
    /\ gt' = swath.gt
    /\ pc' = "done"
    /\ UNCHANGED <<bands, valid, swath, ext, pos, pt, inv>>

Next ==
    \/ HaveSameProjection
    \/ HaveCompatibleGeotransforms
    \/ MainIntersection
    \/ PlyBands

Spec == Init /\ [][Next]_vars

-----------------------------------------------------------------------------
(* claims on Spec *)

AxisAligned(b) == FEq(b.gt[3], F(0)) /\ FEq(b.gt[5], F(0))

\* C2: in main's pipeline, for axis-aligned grids that pass validation, the
\* returned swath lies within every input: its right and top bounds are at
\* most, and its left and bottom bounds at least, every input's extreme.
C2_MainSwathWithinEveryInput ==
    (/\ pc = "intersected"
     /\ \A i \in Idx : AxisAligned(bands[i])) =>
        \A i \in Idx :
            /\ FLe(MaxX(swath), MaxX(bands[i]))
            /\ FLe(MaxY(swath), MaxY(bands[i]))
            /\ FLe(MinX(bands[i]), MinX(swath))
            /\ FLe(MinY(bands[i]), MinY(swath))

-----------------------------------------------------------------------------
(* SpecValidation: validation.rs on a list of datasets *)

Dataset(o, l, proj) == [nx |-> 2, ny |-> 2, gt |-> GT(o, l), proj |-> proj]

\* the same dataset with its origin moved by half a world unit in X
HalfRight(ds) == [ds EXCEPT !.gt[1] = FAdd(@, <<1, 2>>)]

\* north-up at 0, 2 and 2.5 pixel widths; coarser at 0, 2 and 2.5 pixel
\* widths; rotated; singular; another projection
ValidationDatasets ==
    { Dataset(<<0, 0>>, NorthUp, "utm10"),
      Dataset(<<2, 0>>, NorthUp, "utm10"),
      HalfRight(Dataset(<<2, 0>>, NorthUp, "utm10")),
      Dataset(<<0, 0>>, <<2, 0, 0, -2>>, "utm10"),
      Dataset(<<4, 0>>, <<2, 0, 0, -2>>, "utm10"),
      Dataset(<<5, 0>>, <<2, 0, 0, -2>>, "utm10"),
      Dataset(<<0, 0>>, <<0, 1, -1, 1>>, "utm10"),
      Dataset(<<1, 2>>, <<0, 1, -1, 1>>, "utm10"),
      Dataset(<<0, 0>>, <<1, 1, 1, 1>>, "utm10"),
      Dataset(<<1, 1>>, <<1, 1, 1, 1>>, "utm10"),
      Dataset(<<0, 0>>, <<0, 1, 0, 1>>, "utm10"),
      Dataset(<<0, 0>>, NorthUp, "utm11") }

InitValidation ==
    /\ pc = "datasets"
    /\ bands \in BandLists(ValidationDatasets, MaxBands)
    /\ valid = NoResult
    /\ swath = NoResult
    /\ ext = NoExt
    /\ gt = NoGt
    /\ pos = NoPos
    /\ pt = NoPt
    /\ inv = NoPt
    /\ size = NoSize

\* have_same_projection(&datasets)
CheckSameProjection ==
    /\ pc = "datasets"
    /\ valid' = have_same_projection(bands)
    /\ pc' = "projection_checked"
    /\ UNCHANGED <<bands, swath, ext, gt, pos, pt, inv, size>>

\* have_compatible_geotransforms(&datasets)
CheckCompatibleGeotransforms ==
    /\ pc = "datasets"
    /\ valid' = have_compatible_geotransforms(bands)
    /\ pc' = "geotransforms_checked"
    /\ UNCHANGED <<bands, swath, ext, gt, pos, pt, inv, size>>

NextValidation == CheckSameProjection \/ CheckCompatibleGeotransforms

SpecValidation == InitValidation /\ [][NextValidation]_vars

-----------------------------------------------------------------------------
(* claims on SpecValidation *)

IsInteger(x) == IsFinite(x) /\ (x[1] = 0 \/ Den(x) = 1)

SameSpacing(g, h) == \A k \in {2, 3, 5, 6} : FEq(g[k], h[k])

\* the origin of h, inverted through g, is a whole pixel in both axes
OnLattice(g, h) ==
    /\ IsInteger(invert(g, <<h[1], h[4]>>)[1])
    /\ IsInteger(invert(g, <<h[1], h[4]>>)[2])

PairOk(g, h) == SameSpacing(g, h) /\ OnLattice(g, h)

AdjacentPairsOk ==
    \A i \in 1 .. Len(bands) - 1 : PairOk(bands[i].gt, bands[i + 1].gt)

\* the origins of g and h are n/2 pixel widths apart in X, and equal in Y
HalfWidthsApart(g, h, n) ==
    /\ ~FEq(g[2], F(0))
    /\ FEq(FSub(h[1], g[1]), FMul(<<n, 2>>, g[2]))
    /\ FEq(h[4], g[4])

\* what the claim and its amendment share: the two-grid cases
TwoGridCases ==
    (pc = "geotransforms_checked" /\ Len(bands) = 2 /\ ~Singular(bands[1].gt)) =>
        LET g == bands[1].gt
            h == bands[2].gt
        IN  /\ (SameSpacing(g, h) /\ HalfWidthsApart(g, h, 4)) => valid.ok
            /\ (SameSpacing(g, h) /\ HalfWidthsApart(g, h, 5)) =>
                   valid = Err("grids offset")
            /\ ~SameSpacing(g, h) => valid = Err("non-equal spacing")

-----------------------------------------------------------------------------
(* SpecOrder: the extremum selection of intersection on coordinates that    *)
(* may be NaN                                                              *)

\* a north-up band whose origin is <<x, y>>, either of them possibly NaN
BandAt(nx, ny, x, y) ==
    [nx |-> nx, ny |-> ny, proj |-> "utm10",
     gt |-> <<x, F(1), F(0), y, F(0), F(-1)>>]

OrderBands ==
    { BandAt(2, 2, F(0), F(2)), BandAt(2, 2, F(1), F(3)),
      BandAt(3, 1, F(0), F(2)), BandAt(2, 2, NaN, F(2)),
      BandAt(2, 2, F(0), NaN) }

InitOrder ==
    /\ pc = "keys"
    /\ bands \in BandLists(OrderBands, MaxBands) \ {<<>>}
    /\ valid = NoResult
    /\ swath = NoResult
    /\ ext = NoExt
    /\ gt = NoGt
    /\ pos = NoPos
    /\ pt = NoPt
    /\ inv = NoPt
    /\ size = NoSize

\* intersection up to lower_top: the corner extremes of every band and the
\* max / min across the bands
SelectBounds ==
    /\ pc = "keys"
    /\ ext' = bounds(bands)
    /\ pc' = "selected"
    /\ UNCHANGED <<bands, valid, swath, gt, pos, pt, inv, size>>

NextOrder == SelectBounds

SpecOrder == InitOrder /\ [][NextOrder]_vars

-----------------------------------------------------------------------------
(* claims on SpecOrder *)

\* every coordinate the selection compares: the corners' and the extremes'
KeysOf(bs) ==
    UNION { { p[1] : p \in CornerSet(bs[i]) } \cup { p[2] : p \in CornerSet(bs[i]) }
              : i \in 1 .. Len(bs) }

Reverse(o) == IF o = "Less" THEN "Greater" ELSE IF o = "Greater" THEN "Less" ELSE o

\* the same coordinate: both NaN, or equal as f64
SameKey(x, y) == (IsNan(x) /\ IsNan(y)) \/ FEq(x, y)

SameExt(e, f) ==
    /\ SameKey(e.left, f.left)
    /\ SameKey(e.right, f.right)
    /\ SameKey(e.bottom, f.bottom)
    /\ SameKey(e.top, f.top)

\* C12: cmp of RealF64 is a total order over every value, NaN included: it is
\* antisymmetric and transitive and is Equal exactly for equal values, so the
\* minimum and maximum selected from the coordinates do not depend on the
\* positions of the elements.
C12_CmpIsTotalOrder ==
    pc = "selected" =>
        /\ \A a, b \in KeysOf(bands) :
               /\ cmp(a, b) = Reverse(cmp(b, a))
               /\ (cmp(a, b) = "Equal") <=> SameKey(a, b)
        /\ \A a, b, c \in KeysOf(bands) :
               /\ (cmp(a, b) = "Equal" /\ cmp(b, c) = "Equal") => cmp(a, c) = "Equal"
               /\ (cmp(a, b) = "Less" /\ cmp(b, c) = "Less") => cmp(a, c) = "Less"
        /\ \A q \in { Permute(bands, p) : p \in Permutations(Idx) } :
               SameExt(bounds(q), ext)

-----------------------------------------------------------------------------
(* the order of the steps of main, on Spec *)

SameProjections == \A i, j \in Idx : bands[i].proj = bands[j].proj

IntersectionInvoked == swath # NoResult

\* intersection is reached only with both checks passed on these datasets,
\* and a projection mismatch is what the run reports when there is one
ValidatedBeforeIntersection ==
    /\ IntersectionInvoked =>
           (valid = Ok /\ SameProjections /\ AdjacentPairsOk)
    /\ (~SameProjections /\ pc # "start") =>
           (pc = "panicked" /\ valid = Err("Different projections"))
    /\ (SameProjections /\ ~AdjacentPairsOk /\ pc \notin {"start", "same_projection"}) =>
           (pc = "panicked" /\ ~valid.ok /\ valid.msg # "Different projections")

\* the lattice check follows a passed projection check, intersection follows
\* a passed lattice check, and the datasets are the same throughout
StepsInOrder ==
    /\ bands' = bands
    /\ (valid' # valid /\ pc # "start") => (pc = "same_projection" /\ valid.ok)
    /\ swath' # swath => (pc = "validated" /\ valid.ok)

\* C13: in every run of main, intersection is invoked only after
\* have_same_projection and then have_compatible_geotransforms have both
\* returned Ok on the same three datasets; on unequal projections or a failing
\* adjacent pair the run aborts before intersection, and the projection check
\* comes before the lattice check.
C13_ValidationGatesIntersection ==
    [](ValidatedBeforeIntersection) /\ [][StepsInOrder]_vars

\* three different datasets, validated and intersected
C13_Witness ==
    /\ pc = "intersected"
    /\ IntersectionInvoked
    /\ Cardinality({ bands[i] : i \in Idx }) = NumChannels

====
